---- MODULE Spec2Model ----
(***************************************************************************)
(* Arabic FAQ chatbot: ingestion (src/ingest.py), the query engine         *)
(* (src/query.py) and the /ask endpoint (src/app.py).                      *)
(*                                                                         *)
(* A Python str is a sequence of Unicode code points (naturals), so that   *)
(* len, slicing, strip, split, lower and the "in" substring test are       *)
(* computed as the code computes them.                                     *)
(***************************************************************************)
EXTENDS Integers, Sequences, FiniteSets, TLC

VARIABLES
    pdf_text,      \* the text ingest.main last extracted from the PDF
    vector_db,     \* the index at DB_PATH: [exists, chunks]
    query_engine,  \* app.py's global: [loaded, chunks]; None is loaded = FALSE
    last           \* the last /ask request and what its handling did

vars == <<pdf_text, vector_db, query_engine, last>>

\* Python's None where a str is expected: no str holds the character -1
None == << -1 >>

-----------------------------------------------------------------------------
(* Program constants, src/config.py and src/query.py                       *)

TOP_K_RESULTS == 3
CHUNK_SIZE == 1000
CHUNK_OVERLAP == 200
KEYWORD_MIN_LEN == 3     \* query.py:87   len(word) > 3
SHORT_ANSWER_LEN == 10   \* query.py:109  len(answer) < 10

\* "عذرًا، لا أملك معلومات كافية للإجابة على هذا السؤال."
DEFAULT_NO_ANSWER_MSG ==
    << 1593, 1584, 1585, 1611, 1575, 1548, 32, 1604, 1575, 32, 1571, 1605,
       1604, 1603, 32, 1605, 1593, 1604, 1608, 1605, 1575, 1578, 32, 1603,
       1575, 1601, 1610, 1577, 32, 1604, 1604, 1573, 1580, 1575, 1576, 1577,
       32, 1593, 1604, 1609, 32, 1607, 1584, 1575, 32, 1575, 1604, 1587,
       1572, 1575, 1604, 46 >>

-----------------------------------------------------------------------------
(* Python str primitives                                                   *)

NEWLINE == 10
SPACE == 32
PERIOD == 46

\* str.isspace() for one character (the ASCII and Latin-1 white space)
IsSpace(c) == c \in {9, 10, 11, 12, 13, 28, 29, 30, 31, 32, 133, 160}

\* n times the letter "ب"
Fill(n) == [i \in 1..n |-> 1576]

\* str.lower(): the cased characters the model's inputs use are ASCII
LowerChar(c) == IF c \in 65..90 THEN c + 32 ELSE c
Lower(s) == [i \in 1..Len(s) |-> LowerChar(s[i])]

\* s[from:] for 0 <= from
DropPrefix(s, from) == SubSeq(s, from + 1, Len(s))

\* str.strip()
Strip(s) ==
    IF \A i \in 1..Len(s) : IsSpace(s[i]) THEN <<>>
    ELSE SubSeq(s,
                CHOOSE i \in 1..Len(s) :
                    ~IsSpace(s[i]) /\ \A j \in 1..(i - 1) : IsSpace(s[j]),
                CHOOSE i \in 1..Len(s) :
                    ~IsSpace(s[i]) /\ \A j \in (i + 1)..Len(s) : IsSpace(s[j]))

\* needle in hay
Contains(hay, needle) ==
    \/ Len(needle) = 0
    \/ \E i \in 1..(Len(hay) - Len(needle) + 1) :
          \A j \in 1..Len(needle) : hay[i + j - 1] = needle[j]

\* the elements of a finite set of naturals in increasing order
SortedSeq(S) ==
    [i \in 1..Cardinality(S) |->
        CHOOSE x \in S : Cardinality({y \in S : y <= x}) = i]

\* the pieces of s between the cut positions
PiecesAt(s, cuts) ==
    [k \in 1..(Len(cuts) + 1) |->
        SubSeq(s, IF k = 1 THEN 1 ELSE cuts[k - 1] + 1,
                  IF k = Len(cuts) + 1 THEN Len(s) ELSE cuts[k] - 1)]

\* str.split(sep) for a one-character sep
SplitOn(s, sep) == PiecesAt(s, SortedSeq({i \in 1..Len(s) : s[i] = sep}))

\* the end of the run of non-space characters that starts at a
RunEnd(s, a) ==
    CHOOSE b \in a..Len(s) :
        /\ \A j \in a..b : ~IsSpace(s[j])
        /\ (b = Len(s) \/ IsSpace(s[b + 1]))

RunsAt(s, starts) ==
    [k \in 1..Len(starts) |-> SubSeq(s, starts[k], RunEnd(s, starts[k]))]

\* str.split(): the maximal runs of non-space characters
SplitWhitespace(s) ==
    RunsAt(s, SortedSeq({i \in 1..Len(s) :
                  ~IsSpace(s[i]) /\ (i = 1 \/ IsSpace(s[i - 1]))}))

\* sep.join(parts)
RECURSIVE Join(_, _)
Join(parts, sep) ==
    IF Len(parts) = 0 THEN <<>>
    ELSE IF Len(parts) = 1 THEN parts[1]
    ELSE parts[1] \o sep \o Join(Tail(parts), sep)

-----------------------------------------------------------------------------
(* src/ingest.py                                                           *)

\* the character class of arabic_pattern (ingest.py:39): what is kept
KeptByPattern(c) ==
    \/ c \in 1536..1791      \* ؀-ۿ
    \/ c \in 1872..1919      \* ݐ-ݿ
    \/ c \in 2208..2303      \* ࢠ-ࣿ
    \/ c \in 64336..65023    \* ﭐ-﷿
    \/ c \in 65136..65279    \* ﹰ-
    \/ c \in 32..47          \*  -/
    \/ c \in 48..57          \* 0-9
                             \* ٠-٩, ۰-۹ lie in ؀-ۿ

\* the subsequence of s at the indices lo..hi that keep(_) accepts
RECURSIVE SelectRange(_, _, _, _)
SelectRange(s, keep, lo, hi) ==
    IF lo > hi THEN <<>>
    ELSE IF lo = hi THEN (IF keep[lo] THEN <<s[lo]>> ELSE <<>>)
    ELSE LET mid == (lo + hi) \div 2
         IN  SelectRange(s, keep, lo, mid) \o SelectRange(s, keep, mid + 1, hi)

\* ingest.py:40  arabic_pattern.sub(' ', text)
SubPattern(text) ==
    [i \in 1..Len(text) |-> IF KeptByPattern(text[i]) THEN text[i] ELSE SPACE]

\* ingest.py:43  re.sub(r'\s+', ' ', text): one space for each run of white
\* space
SubSpaces(text) ==
    SelectRange([i \in 1..Len(text) |->
                    IF IsSpace(text[i]) THEN SPACE ELSE text[i]],
                [i \in 1..Len(text) |->
                    ~(IsSpace(text[i]) /\ i > 1 /\ IsSpace(text[i - 1]))],
                1, Len(text))

\* ingest.py:32-45; the utf-8 round trip (line 35) changes no code point of
\* the texts here, and re.sub(r'\n+', '\n', text) (line 44) finds no
\* newline left
clean_text(text) == Strip(SubSpaces(SubPattern(text)))

(* chunk_text (ingest.py:47-56) hands the text to langchain's               *)
(* RecursiveCharacterTextSplitter(chunk_size, chunk_overlap, len) with its  *)
(* defaults: separators ["\n\n", "\n", " ", ""], keep_separator, and        *)
(* strip_whitespace.  main() passes clean_text's result, which holds no     *)
(* newline, so the first separator that can match is " ".  A piece and a    *)
(* chunk are spans [lo, hi] of the text: with keep_separator the pieces are *)
(* joined by "", so every chunk is a contiguous span.                       *)

SpanLen(p) == p.hi - p.lo + 1

\* the spans between the cuts: the first starts at lo, each later one at a
\* cut, the last ends at hi
SpansAt(cuts, lo, hi) ==
    [k \in 1..(Len(cuts) + 1) |->
        [lo |-> IF k = 1 THEN lo ELSE cuts[k - 1],
         hi |-> IF k = Len(cuts) + 1 THEN hi ELSE cuts[k] - 1]]

NonEmptySpans(spans) ==
    SelectRange(spans, [k \in 1..Len(spans) |-> SpanLen(spans[k]) > 0],
                1, Len(spans))

\* _split_text_with_regex(text, " ", keep_separator=True) on the span
\* [lo, hi]: the first word, then each later word with the space before
\* it; empty pieces are dropped
WordPieces(text, lo, hi) ==
    NonEmptySpans(SpansAt(SortedSeq({i \in lo..hi : text[i] = SPACE}), lo, hi))

\* list(text) on the span [lo, hi]
CharPieces(lo, hi) ==
    [k \in 1..(hi - lo + 1) |-> [lo |-> lo + k - 1, hi |-> lo + k - 1]]

\* _merge_splits before its loop: docs, and current_doc as the pieces
\* first..first+n-1 whose lengths sum to total (separator_len is 0)
MergeInit == [docs |-> <<>>, first |-> 1, n |-> 0, total |-> 0]

\* total once the first j pieces of current_doc are popped, at piece k
TotalAfter(pieces, st, k, j) == pieces[k].lo - pieces[st.first + j].lo

PopCond_NoOverlap(total, len) == total + len > CHUNK_SIZE /\ total > 0

\* the condition of the while loop of _merge_splits
PopCond(total, len) ==
    total > CHUNK_OVERLAP \/ (total + len > CHUNK_SIZE /\ total > 0)

\* how many pieces the while loop pops: it stops when PopCond fails, and
\* total only decreases
Pops(pieces, st, k) ==
    CHOOSE j \in 0..st.n :
        /\ ~PopCond(TotalAfter(pieces, st, k, j), SpanLen(pieces[k]))
        /\ \/ j = 0
           \/ PopCond(TotalAfter(pieces, st, k, j - 1), SpanLen(pieces[k]))

\* current_doc is joined into docs, then loses its first pops pieces
EmitAndPop(pieces, st, k, pops) ==
    [docs  |-> Append(st.docs, [lo |-> pieces[st.first].lo,
                                hi |-> pieces[k - 1].hi]),
     first |-> st.first + pops,
     n     |-> st.n - pops,
     total |-> TotalAfter(pieces, st, k, pops)]

\* current_doc.append(d); total += _len
AppendPiece(st, k, len) ==
    [docs  |-> st.docs,
     first |-> IF st.n = 0 THEN k ELSE st.first,
     n     |-> st.n + 1,
     total |-> st.total + len]

\* one iteration of the loop of _merge_splits, for the piece k
MergeStep(pieces, st, k) ==
    AppendPiece(IF st.total + SpanLen(pieces[k]) > CHUNK_SIZE /\ st.n > 0
                THEN EmitAndPop(pieces, st, k, Pops(pieces, st, k))
                ELSE st,
                k, SpanLen(pieces[k]))

\* the loop of _merge_splits over the pieces lo..hi, in order (by halves,
\* the left one computed first)
RECURSIVE MergeLoop(_, _, _, _)
RECURSIVE MergeRest(_, _, _, _)
MergeLoop(pieces, st, lo, hi) ==
    IF lo > hi THEN st
    ELSE IF lo = hi THEN MergeStep(pieces, st, lo)
    ELSE MergeRest(pieces, MergeLoop(pieces, st, lo, (lo + hi) \div 2),
                   (lo + hi) \div 2 + 1, hi)
MergeRest(pieces, st, lo, hi) ==
    IF st.n >= 0 THEN MergeLoop(pieces, st, lo, hi) ELSE st

\* the end of _merge_splits: what is left of current_doc is joined too
MergeEnd(pieces, st) ==
    IF st.n > 0
    THEN Append(st.docs, [lo |-> pieces[st.first].lo,
                          hi |-> pieces[Len(pieces)].hi])
    ELSE st.docs

\* _merge_splits(pieces, ""): the spans joined, before _join_docs strips
merge_splits(pieces) ==
    MergeEnd(pieces, MergeLoop(pieces, MergeInit, 1, Len(pieces)))

\* _split_text(s, [""]): one character is always shorter than CHUNK_SIZE
SplitChars(lo, hi) == merge_splits(CharPieces(lo, hi))

\* the first piece from k on that is not shorter than CHUNK_SIZE, or
\* Len(pieces) + 1
NextLong(pieces, k) ==
    IF \E j \in k..Len(pieces) : SpanLen(pieces[j]) >= CHUNK_SIZE
    THEN CHOOSE j \in k..Len(pieces) :
             /\ SpanLen(pieces[j]) >= CHUNK_SIZE
             /\ \A i \in k..(j - 1) : SpanLen(pieces[i]) < CHUNK_SIZE
    ELSE Len(pieces) + 1

\* the loop of _split_text over the word pieces from k on: the pieces
\* shorter than CHUNK_SIZE up to stop are merged, the piece at stop is split
\* by character
RECURSIVE SplitWords(_, _)
RECURSIVE SplitWordsTo(_, _, _)
SplitWords(pieces, k) ==
    IF k > Len(pieces) THEN <<>>
    ELSE SplitWordsTo(pieces, k, NextLong(pieces, k))
SplitWordsTo(pieces, k, stop) ==
    IF stop > Len(pieces)
    THEN merge_splits(SubSeq(pieces, k, stop - 1))
    ELSE merge_splits(SubSeq(pieces, k, stop - 1))
         \o SplitChars(pieces[stop].lo, pieces[stop].hi)
         \o SplitWords(pieces, stop + 1)

\* _split_text(text, separators) for a text without newlines
split_text_spans(text) ==
    IF \E i \in 1..Len(text) : text[i] = SPACE
    THEN SplitWords(WordPieces(text, 1, Len(text)), 1)
    ELSE SplitChars(1, Len(text))

\* text.strip() on a span that is not blank
StripSpan(text, p) ==
    [lo |-> CHOOSE i \in p.lo..p.hi :
                ~IsSpace(text[i]) /\ \A j \in p.lo..(i - 1) : IsSpace(text[j]),
     hi |-> CHOOSE i \in p.lo..p.hi :
                ~IsSpace(text[i]) /\ \A j \in (i + 1)..p.hi : IsSpace(text[j])]

\* _join_docs on every span: text.strip(), and None (dropped) when nothing
\* is left
JoinDocs(text, raw) ==
    SelectRange([k \in 1..Len(raw) |->
                    IF \A i \in raw[k].lo..raw[k].hi : IsSpace(text[i])
                    THEN raw[k] ELSE StripSpan(text, raw[k])],
                [k \in 1..Len(raw) |->
                    ~ \A i \in raw[k].lo..raw[k].hi : IsSpace(text[i])],
                1, Len(raw))

\* the spans of text that split_text returns as chunks
ChunkSpans(text) == JoinDocs(text, split_text_spans(text))

TextOf(text, spans) ==
    [k \in 1..Len(spans) |-> SubSeq(text, spans[k].lo, spans[k].hi)]

\* ingest.py:47-56
chunk_text(text) == TextOf(text, ChunkSpans(text))

-----------------------------------------------------------------------------
(* src/query.py                                                            *)

\* the literal text of the template of format_prompt (query.py:57-68)
\* before {context}, between {context} and {query}, and after {query}
TEMPLATE_HEAD ==
    << 10, 32, 32, 32, 32, 32, 32, 32, 32, 1575, 1587, 1578, 1606, 1575,
       1583, 1611, 1575, 32, 1573, 1604, 1609, 32, 1575, 1604, 1605, 1593,
       1604, 1608, 1605, 1575, 1578, 32, 1575, 1604, 1578, 1575, 1604, 1610,
       1577, 58, 10, 32, 32, 32, 32, 32, 32, 32, 32, 10, 32, 32, 32, 32, 32,
       32, 32, 32 >>

TEMPLATE_MID ==
    << 10, 32, 32, 32, 32, 32, 32, 32, 32, 10, 32, 32, 32, 32, 32, 32, 32,
       32, 1571, 1580, 1576, 32, 1593, 1604, 1609, 32, 1575, 1604, 1587,
       1572, 1575, 1604, 32, 1575, 1604, 1578, 1575, 1604, 1610, 32, 1576,
       1575, 1604, 1604, 1594, 1577, 32, 1575, 1604, 1593, 1585, 1576, 1610,
       1577, 58, 10, 32, 32, 32, 32, 32, 32, 32, 32 >>

TEMPLATE_TAIL ==
    << 10, 32, 32, 32, 32, 32, 32, 32, 32, 10, 32, 32, 32, 32, 32, 32, 32,
       32, 1573, 1584, 1575, 32, 1603, 1575, 1606, 1578, 32, 1575, 1604,
       1605, 1593, 1604, 1608, 1605, 1575, 1578, 32, 1575, 1604, 1605, 1602,
       1583, 1605, 1577, 32, 1604, 1575, 32, 1578, 1581, 1578, 1608, 1610,
       32, 1593, 1604, 1609, 32, 1573, 1580, 1575, 1576, 1577, 32, 1604,
       1604, 1587, 1572, 1575, 1604, 1548, 32, 1601, 1602, 1604, 58, 32, 34,
       1593, 1584, 1585, 1611, 1575, 1548, 32, 1604, 1575, 32, 1571, 1605,
       1604, 1603, 32, 1605, 1593, 1604, 1608, 1605, 1575, 1578, 32, 1603,
       1575, 1601, 1610, 1577, 32, 1604, 1604, 1573, 1580, 1575, 1576, 1577,
       32, 1593, 1604, 1609, 32, 1607, 1584, 1575, 32, 1575, 1604, 1587,
       1572, 1575, 1604, 46, 34, 10, 32, 32, 32, 32, 32, 32, 32, 32, 10, 32,
       32, 32, 32, 32, 32, 32, 32, 1575, 1604, 1573, 1580, 1575, 1576, 1577,
       58, 10, 32, 32, 32, 32, 32, 32, 32, 32 >>

\* query.py:54-70
format_prompt(query, context) ==
    TEMPLATE_HEAD \o context \o TEMPLATE_MID \o query \o TEMPLATE_TAIL

\* query.py:47  "\n\n".join([doc.page_content for doc in results])
JoinResults(db, hits) ==
    Join([k \in 1..Len(hits) |-> db[hits[k]]], <<NEWLINE, NEWLINE>>)

\* query.py:49-52: None when the joined text is blank
NoneIfBlank(context) == IF Strip(context) = <<>> THEN None ELSE context

get_relevant_context_All(db, hits) ==
    NoneIfBlank(Join(db, <<NEWLINE, NEWLINE>>))

\* query.py:44-52
get_relevant_context(db, hits) == NoneIfBlank(JoinResults(db, hits))

\* the words longer than 3 characters, in order and with repetitions
LongWords(words) ==
    SelectRange(words, [k \in 1..Len(words) |-> Len(words[k]) > KEYWORD_MIN_LEN],
                1, Len(words))

\* query.py:86-87
query_keywords(query) == LongWords(SplitWhitespace(Lower(query)))

GatePasses_All(keywords, context) ==
    \A k \in 1..Len(keywords) : Contains(Lower(context), keywords[k])

\* query.py:89: any(keyword in context.lower() for keyword in query_keywords)
GatePasses(keywords, context) ==
    \E k \in 1..Len(keywords) : Contains(Lower(context), keywords[k])

Overlap_Absent(keywords, p) ==
    Cardinality({k \in 1..Len(keywords) : ~Contains(Lower(p), keywords[k])})

\* query.py:112,122: sum(kw in p.lower() for kw in query_keywords)
Overlap(keywords, p) ==
    Cardinality({k \in 1..Len(keywords) : Contains(Lower(p), keywords[k])})

\* max(parts, key=...) given the keys: the first part whose key is largest
FirstMax(parts, score) ==
    parts[CHOOSE k \in 1..Len(parts) :
              /\ \A j \in 1..Len(parts) : score[j] <= score[k]
              /\ \A j \in 1..(k - 1) : score[j] < score[k]]

MostRelevant_First(keywords, parts) == parts[1]

\* query.py:112,122: max(parts, key=lambda p: sum(kw in p.lower() ...))
MostRelevant(keywords, parts) ==
    FirstMax(parts, [k \in 1..Len(parts) |-> Overlap(keywords, parts[k])])

ShortOrAnswer_Raw(keywords, context, answer) == answer

\* query.py:109-115: the answer once it is stripped
ShortOrAnswer(keywords, context, answer) ==
    IF Len(answer) < SHORT_ANSWER_LEN
    THEN MostRelevant(keywords, SplitOn(context, NEWLINE))
    ELSE answer

FromGenerated_Whole(keywords, context, prompt, generated_text) ==
    ShortOrAnswer(keywords, context, Strip(generated_text))

\* query.py:103-115: the try block once the generator has returned
\* generated_text
FromGenerated(keywords, context, prompt, generated_text) ==
    ShortOrAnswer(keywords, context,
                  Strip(DropPrefix(generated_text, Len(prompt))))

FromException_Newline(keywords, context) ==
    MostRelevant(keywords, SplitOn(context, NEWLINE)) \o <<PERIOD>>

\* query.py:117-123: the except block
FromException(keywords, context) ==
    MostRelevant(keywords, SplitOn(context, PERIOD)) \o <<PERIOD>>

\* query.py:92-123: the generator raises, or returns the prompt followed
\* by gen.text (the text-generation pipeline returns the full text)
Generate(keywords, context, prompt, gen) ==
    IF gen.raised
    THEN FromException(keywords, context)
    ELSE FromGenerated(keywords, context, prompt, prompt \o gen.text)

\* query.py:82-123
AnswerWith(context, query, keywords, gen) ==
    IF ~GatePasses(keywords, context)
    THEN [raised |-> FALSE, value |-> DEFAULT_NO_ANSWER_MSG,
          context |-> context, generated |-> FALSE]
    ELSE [raised |-> FALSE,
          value |-> Generate(keywords, context,
                             format_prompt(query, context), gen),
          context |-> context, generated |-> TRUE]

\* query.py:78-123
AnswerFrom(context, query, gen) ==
    IF context = None \/ context = <<>>
    THEN [raised |-> FALSE, value |-> DEFAULT_NO_ANSWER_MSG,
          context |-> context, generated |-> FALSE]
    ELSE AnswerWith(context, query, query_keywords(query), gen)

\* What the libraries hand to one call of answer_question:
\*   retrieval: [raised, hits] - similarity_search raises, or returns the
\*              documents of the index at the positions hits, in that order;
\*   gen: [raised, text] - the generator raises, or appends text to the
\*        prompt.
\* query.py:72-123; the result is [raised, value] and, for the record of
\* the request, the context and whether the generator was called.
answer_question(db, query, retrieval, gen) ==
    IF retrieval.raised
    THEN [raised |-> TRUE, value |-> <<>>, context |-> None, generated |-> FALSE]
    ELSE AnswerFrom(get_relevant_context(db, retrieval.hits), query, gen)

-----------------------------------------------------------------------------
(* src/app.py                                                              *)

\* app.py:48-53: the try/except of ask_question around the call, given
\* whether the call raised and what it returned
Respond_Propagate(raised, value) ==
    IF raised
    THEN [status |-> 500, answer |-> value]
    ELSE [status |-> 200, answer |-> value]

Respond(raised, value) ==
    IF raised
    THEN [status |-> 200, answer |-> DEFAULT_NO_ANSWER_MSG]
    ELSE [status |-> 200, answer |-> value]

IsBlank_NoStrip(question) == question = <<>>

\* app.py:45: if not question.strip()
IsBlank(question) == Strip(question) = <<>>

NoRetrieval == [raised |-> FALSE, hits |-> <<>>]
NoGen == [raised |-> FALSE, text |-> <<>>]

\* what last keeps of a request that never reached answer_question
NotInvoked(question) ==
    [question |-> question, invoked |-> FALSE, hits |-> <<>>,
     context |-> None, retrieval_raised |-> FALSE, generated |-> FALSE,
     gen_raised |-> FALSE, continuation |-> <<>>]

\* what last keeps of a call of answer_question that ended as out
Invoked(question, retrieval, gen, out) ==
    [question |-> question, invoked |-> TRUE, hits |-> retrieval.hits,
     context |-> out.context, retrieval_raised |-> retrieval.raised,
     generated |-> out.generated,
     gen_raised |-> out.generated /\ gen.raised,
     continuation |-> IF out.generated /\ ~gen.raised THEN gen.text ELSE <<>>]
    @@ Respond(out.raised, out.value)

\* app.py:40-53: the whole handler of POST /ask, as the record of the
\* request kept in last
HandleAsk(engine, question, retrieval, gen) ==
    IF IsBlank(question)
    THEN NotInvoked(question)
         @@ [status |-> 200, answer |-> DEFAULT_NO_ANSWER_MSG]
    ELSE IF ~engine.loaded
    THEN \* query_engine is None: the attribute lookup raises AttributeError
         NotInvoked(question) @@ Respond(TRUE, <<>>)
    ELSE Invoked(question, retrieval, gen,
                 answer_question(engine.chunks, question, retrieval, gen))

-----------------------------------------------------------------------------
(* Inputs                                                                  *)

\* "ساعات العمل من 9 إلى 5" and "ما هي ساعات العمل؟"
SENTENCE ==
    << 1587, 1575, 1593, 1575, 1578, 32, 1575, 1604, 1593, 1605, 1604, 32,
       1605, 1606, 32, 57, 32, 1573, 1604, 1609, 32, 53 >>
QUESTION ==
    << 1605, 1575, 32, 1607, 1610, 32, 1587, 1575, 1593, 1575, 1578, 32,
       1575, 1604, 1593, 1605, 1604, 1567 >>

WORD_HOURS == SubSeq(SENTENCE, 1, 5)          \* "ساعات"
WORD_WORKQ == SubSeq(QUESTION, 14, 18)        \* "العمل؟"
WORD_TO == SubSeq(SENTENCE, 18, 20)           \* "إلى"
WORD_FAQS == << 70, 65, 81, 83 >>             \* "FAQS"

MaxDocItems == 3
MaxQuestionWords == 2
PadLen == 501
ContSpread == 1

\* every concatenation of 1..m items
Concats(items, m) ==
    UNION { { Join(f, <<>>) : f \in [1..k -> items] } : k \in 1..m }

\* what the PDF may hold: the sentence, the question, a run of PadLen
\* letters, and a period before the Latin word "faqs" and a line break
DocItems ==
    { SENTENCE, QUESTION, Fill(PadLen),
      <<PERIOD>> \o Lower(WORD_FAQS) \o <<NEWLINE>> }

\* ... or nothing that clean_text keeps
PdfTexts == Concats(DocItems, MaxDocItems) \cup { Lower(WORD_FAQS) \o <<NEWLINE>> }

QuestionWords == { WORD_HOURS, WORD_WORKQ, WORD_TO, WORD_FAQS }

Questions ==
    { <<>>, <<SPACE>>, <<NEWLINE, SPACE>>, QUESTION,
      <<SPACE>> \o WORD_HOURS \o <<NEWLINE>> }
    \cup UNION { { Join(f, <<SPACE>>) : f \in [1..k -> QuestionWords] } :
                 k \in 1..MaxQuestionWords }

\* sequences of k distinct positions of an index of n documents
Arrangements(n, k) ==
    { h \in [1..k -> 1..n] : \A i, j \in 1..k : i # j => h[i] # h[j] }

Min2(a, b) == IF a < b THEN a ELSE b

\* similarity_search(query, k=TOP_K_RESULTS) on an index of n documents:
\* it raises, or returns at most min(k, n) of them in the order of their
\* distance to the query, which the embedding model decides
Retrievals(n) ==
    { [raised |-> TRUE, hits |-> <<>>] }
    \cup UNION { { [raised |-> FALSE, hits |-> h] : h \in Arrangements(n, k) } :
                 k \in 0..Min2(TOP_K_RESULTS, n) }

\* the generator raises, or continues the prompt: with white space around
\* a text of about SHORT_ANSWER_LEN characters, with the message the prompt
\* asks for, or with the sentence
Continuations ==
    { <<SPACE>> \o Fill(n) \o <<NEWLINE>> :
        n \in (SHORT_ANSWER_LEN - ContSpread)..(SHORT_ANSWER_LEN + ContSpread - 1) }
    \cup { <<>>, DEFAULT_NO_ANSWER_MSG, <<SPACE>> \o SENTENCE }

Generations ==
    { [raised |-> TRUE, text |-> <<>>] }
    \cup { [raised |-> FALSE, text |-> c] : c \in Continuations }

-----------------------------------------------------------------------------
(* The state machine                                                       *)

NoRequest ==
    [question |-> <<>>, invoked |-> FALSE, hits |-> <<>>, context |-> None,
     retrieval_raised |-> FALSE, generated |-> FALSE, gen_raised |-> FALSE,
     continuation |-> <<>>, status |-> 0, answer |-> <<>>]

Init ==
    /\ pdf_text \in PdfTexts
    /\ vector_db = [exists |-> FALSE, chunks |-> <<>>]
    /\ query_engine = [loaded |-> FALSE, chunks |-> <<>>]
    /\ last = NoRequest

\* ingest.py:58-74: the index saved at DB_PATH
create_vector_db(old, chunks) ==
    IF chunks = <<>> THEN old ELSE [exists |-> TRUE, chunks |-> chunks]

\* ingest.py:96-111 with the PDF at PDF_PATH holding pdf_text.
\* FAISS.from_texts raises on an empty list of chunks, and then nothing is
\* saved.  The offline step shares only the index directory with the
\* server, so it is interleaved between requests, not inside one.
main ==
    /\ last = NoRequest
    /\ vector_db' = create_vector_db(vector_db, chunk_text(clean_text(pdf_text)))
    /\ UNCHANGED <<pdf_text, query_engine, last>>

\* app.py:29-33 and query.py:15-42, run once by the server before it takes
\* requests: QueryEngine() loads the index at DB_PATH, or raises
\* FileNotFoundError when there is none and query_engine stays None
startup_event ==
    /\ last = NoRequest
    /\ ~query_engine.loaded
    /\ vector_db.exists
    /\ query_engine' = [loaded |-> TRUE, chunks |-> vector_db.chunks]
    /\ UNCHANGED <<pdf_text, vector_db, last>>

\* app.py:40-53: one POST /ask, from the request to the returned dict
ask_question(question) ==
    /\ last = NoRequest
    /\ \E retrieval \in IF query_engine.loaded /\ ~IsBlank(question)
                        THEN Retrievals(Len(query_engine.chunks))
                        ELSE {NoRetrieval} :
         \E gen \in IF query_engine.loaded /\ ~IsBlank(question) /\ ~retrieval.raised
                    THEN Generations ELSE {NoGen} :
            last' = HandleAsk(query_engine, question, retrieval, gen)
    /\ UNCHANGED <<pdf_text, vector_db, query_engine>>

\* the framework sends the returned dict as the JSON response
send_response ==
    /\ last # NoRequest
    /\ last' = NoRequest
    /\ UNCHANGED <<pdf_text, vector_db, query_engine>>

Next ==
    \/ main
    \/ startup_event
    \/ \E question \in Questions : ask_question(question)
    \/ send_response

Spec == Init /\ [][Next]_vars

\* the offline step alone
SpecIngest == Init /\ [][main]_vars

-----------------------------------------------------------------------------
(* The claims.  last is the request being answered: what came in (the      *)
(* question, what the index and the generator handed back) and what goes   *)
(* out (status, answer).  The claims are stated on what came in.           *)

Asked == last # NoRequest

\* answer_question ran and similarity_search returned documents
Retrieving == last.invoked /\ ~last.retrieval_raised

\* the concatenation of the retrieved chunks
Retrieved ==
    Join([k \in 1..Len(last.hits) |-> query_engine.chunks[last.hits[k]]],
         <<NEWLINE, NEWLINE>>)

\* the whitespace-separated tokens of the question
Tokens == SplitWhitespace(last.question)

\* the keywords: the tokens longer than 3 characters
Keywords == { Tokens[k] : k \in { j \in 1..Len(Tokens) : Len(Tokens[j]) > 3 } }

\* how many keywords of the question occur in p, one for each time the
\* question names it
KeywordCount(p) ==
    Cardinality({ k \in 1..Len(Tokens) :
                    Len(Tokens[k]) > 3 /\ Contains(Lower(p), Tokens[k]) })

\* the first of the parts whose keyword count is maximal
Best(parts) ==
    parts[CHOOSE k \in 1..Len(parts) :
              /\ \A j \in 1..Len(parts) :
                    KeywordCount(parts[j]) <= KeywordCount(parts[k])
              /\ \A j \in 1..(k - 1) :
                    KeywordCount(parts[j]) < KeywordCount(parts[k])]

Paragraphs == SplitOn(Retrieved, NEWLINE)
Sentences == SplitOn(Retrieved, PERIOD)

\* the keyword gate passes: the context is not empty and some keyword
\* occurs in the lowercased context
GateOpen ==
    /\ Retrieving
    /\ Retrieved # <<>>
    /\ \E kw \in Keywords : Contains(Lower(Retrieved), kw)

\* the generator returned, and its continuation, stripped
Continued == GateOpen /\ ~last.gen_raised
Continuation == Strip(last.continuation)

\* C1: a request whose question is empty or only white space is answered
\* with exactly DEFAULT_NO_ANSWER_MSG, and answer_question is not invoked
\* for it.
C1_BlankQuestionFallsBack ==
    (Asked /\ \A i \in 1..Len(last.question) : IsSpace(last.question[i]))
        => /\ last.answer = DEFAULT_NO_ANSWER_MSG
           /\ last.status = 200
           /\ ~last.invoked

C1_Witness ==
    /\ Asked
    /\ query_engine.loaded
    /\ last.question # <<>>
    /\ \A i \in 1..Len(last.question) : IsSpace(last.question[i])

\* C2: every request gets a normal response (status 200); when an
\* exception leaves answer_question, or the query engine was never
\* initialised, the answer is DEFAULT_NO_ANSWER_MSG.
C2_NoFailureStatus ==
    Asked =>
        /\ last.status = 200
        /\ ( \/ last.retrieval_raised
             \/ (~query_engine.loaded
                 /\ \E i \in 1..Len(last.question) : ~IsSpace(last.question[i])) )
              => last.answer = DEFAULT_NO_ANSWER_MSG

C2_Witness == Asked /\ last.retrieval_raised /\ last.question = QUESTION

\* C3: with a non-empty context, when no token of the question longer
\* than 3 characters occurs in the lowercased context (also when there is no
\* such token), the answer is DEFAULT_NO_ANSWER_MSG.
C3_NoKeywordFallsBack ==
    ( /\ Retrieving
      /\ Retrieved # <<>>
      /\ \A kw \in Keywords : ~Contains(Lower(Retrieved), kw) )
        => /\ last.answer = DEFAULT_NO_ANSWER_MSG
           /\ ~last.generated

C3_Witness ==
    /\ Retrieving
    /\ Retrieved # <<>>
    /\ WORD_FAQS \in Keywords
    /\ Contains(pdf_text, Lower(WORD_FAQS))
    /\ \A kw \in Keywords : ~Contains(Lower(Retrieved), kw)

\* C4: when the gate passes and the stripped continuation is shorter than
\* 10 characters, the answer is the newline-delimited paragraph of the
\* context with the maximal keyword count (the first of them).
C4_ShortContinuationParagraph ==
    (Continued /\ Len(Continuation) < 10) => last.answer = Best(Paragraphs)

C4_Witness ==
    /\ Continued
    /\ Len(Continuation) < 10
    /\ Continuation # <<>>
    /\ last.answer # Paragraphs[1]

\* C5 as stated: when the generator fails after the gate has passed, the
\* answer is the period-delimited sentence of the context with the highest
\* keyword count.
C5_Original ==
    (GateOpen /\ last.gen_raised) => last.answer = Best(Sentences)

\* C5 as amended: when the generator fails after the gate has passed, the
\* exception stays inside answer_question and the answer is the
\* period-delimited sentence of the context with the highest keyword count
\* (the first of them) followed by one period.
C5_FailureSentenceWithPeriod ==
    (GateOpen /\ last.gen_raised)
        => /\ last.answer = Best(Sentences) \o <<PERIOD>>
           /\ last.status = 200

C5_Witness ==
    /\ GateOpen
    /\ last.gen_raised
    /\ Len(Sentences) > 1
    /\ last.answer # Sentences[1] \o <<PERIOD>>

\* C6: when the concatenation of the retrieved chunks is empty, the answer
\* is DEFAULT_NO_ANSWER_MSG, whatever the question.
C6_EmptyContextFallsBack ==
    (Retrieving /\ Retrieved = <<>>)
        => /\ last.answer = DEFAULT_NO_ANSWER_MSG
           /\ ~last.generated

C6_Witness ==
    /\ Retrieving
    /\ Retrieved = <<>>
    /\ last.question = QUESTION
    /\ \E k \in 1..Len(query_engine.chunks) :
          Contains(query_engine.chunks[k], SENTENCE)

\* the chunks of the ingested text as spans of the cleaned text
Spans == ChunkSpans(clean_text(pdf_text))

\* the number of characters the chunks k and k + 1 share
SharedChars(k) ==
    IF Spans[k].hi >= Spans[k + 1].lo
    THEN Spans[k].hi - Spans[k + 1].lo + 1
    ELSE 0

\* C7 as stated: every chunk is at most CHUNK_SIZE characters long, and
\* every two consecutive chunks, except possibly the last two, overlap by
\* CHUNK_OVERLAP characters.
C7_Original ==
    vector_db.exists =>
        /\ \A k \in 1..Len(vector_db.chunks) :
              Len(vector_db.chunks[k]) <= CHUNK_SIZE
        /\ \A k \in 1..(Len(Spans) - 2) : SharedChars(k) = CHUNK_OVERLAP

\* C7 as amended: every chunk is at most CHUNK_SIZE characters long, and
\* every two consecutive chunks overlap by at most CHUNK_OVERLAP characters
\* (the chunks are the spans of the cleaned text, in order).
C7_ChunksWithinSizeAndOverlap ==
    vector_db.exists =>
        /\ Len(vector_db.chunks) = Len(Spans)
        /\ \A k \in 1..Len(Spans) :
              /\ Len(vector_db.chunks[k]) <= CHUNK_SIZE
              /\ vector_db.chunks[k]
                   = SubSeq(clean_text(pdf_text), Spans[k].lo, Spans[k].hi)
        /\ \A k \in 1..(Len(Spans) - 1) :
              /\ SharedChars(k) <= CHUNK_OVERLAP
              /\ Spans[k].lo < Spans[k + 1].lo

C7_Witness ==
    /\ vector_db.exists
    /\ Len(vector_db.chunks) >= 2
    /\ Len(vector_db.chunks[1]) = CHUNK_SIZE
    /\ SharedChars(1) = CHUNK_OVERLAP

\* the document holds the sentence, the question is asked, and the
\* retrieved context holds the sentence
AskedAboutHours ==
    /\ Retrieving
    /\ last.question = QUESTION
    /\ Contains(pdf_text, SENTENCE)
    /\ Contains(Retrieved, SENTENCE)

\* C8 as stated: after a document containing the sentence is ingested,
\* the answer to the question is not the fallback message and contains the
\* sentence, on each of the three paths.
C8_Original ==
    AskedAboutHours
        => /\ last.answer # DEFAULT_NO_ANSWER_MSG
           /\ Contains(last.answer, SENTENCE)

\* the pieces of the context the answer is taken from when it is not the
\* continuation
Pieces == IF last.gen_raised THEN Sentences ELSE Paragraphs

\* C8 as amended: after a document containing the sentence is ingested and
\* the context holds the sentence, the answer to the question is, on the
\* generated path, the stripped continuation whatever it says; on the
\* short-continuation and model-failure paths it is not the fallback
\* message and contains a keyword of the question, and it contains the
\* sentence when no piece of the context without the sentence contains a
\* keyword.
C8_EndToEnd ==
    AskedAboutHours =>
        IF ~last.gen_raised /\ Len(Continuation) >= 10
        THEN last.answer = Continuation
        ELSE /\ last.answer # DEFAULT_NO_ANSWER_MSG
             /\ \E kw \in Keywords : Contains(last.answer, kw)
             /\ (\A k \in 1..Len(Pieces) :
                    Contains(Pieces[k], SENTENCE) \/ KeywordCount(Pieces[k]) = 0)
                  => Contains(last.answer, SENTENCE)

C8_Witness ==
    /\ AskedAboutHours
    /\ last.gen_raised
    /\ Len(Sentences) > 1
    /\ last.answer # Sentences[1] \o <<PERIOD>>
    /\ Contains(last.answer, SENTENCE)

\* C9: when the context is not empty, the gate passes, the generator
\* returns and the stripped continuation has at least 10 characters, the
\* answer is exactly that continuation.
C9_ContinuationReturned ==
    (Continued /\ Len(Continuation) >= 10) => last.answer = Continuation

C9_Witness ==
    /\ Continued
    /\ Len(Continuation) = 10
    /\ Continuation # last.continuation

\* C10: the paragraph returned on the short-continuation path is not
\* empty and contains at least one keyword of the question.
C10_ParagraphHasKeyword ==
    (Continued /\ Len(Continuation) < 10)
        => /\ last.answer # <<>>
           /\ \E kw \in Keywords : Contains(Lower(last.answer), kw)

C10_Witness ==
    /\ Continued
    /\ Len(Continuation) < 10
    /\ Len(last.hits) > 1
    /\ \E k \in 1..Len(Paragraphs) : Paragraphs[k] = <<>>

====
